---- MODULE Spec2Model ----
(***************************************************************************)
(* Model of the results grapher (grapher.py): the ResultsWindow handlers   *)
(* browseFile, loadFile, updateGraph, showAnomalies, the two check-box     *)
(* handlers, and the ResultsGraph canvas operations updateData, colorSpan  *)
(* and clearSpans.                                                         *)
(*                                                                         *)
(* Every handler runs to completion on the UI thread, so a handler is one  *)
(* action.  A Python exception that leaves a handler is recorded in exc;   *)
(* the assignments made before the raise stay in the state, as they do in  *)
(* the program (PyQt reports the exception and the event loop goes on).    *)
(*                                                                         *)
(* Handlers are written as operators from a state record to a state        *)
(* record, so that browseFile can call loadFile and updateGraph in         *)
(* sequence exactly as the code does.                                      *)
(*                                                                         *)
(* Representation.                                                         *)
(*   - A CSV field is a record [k, v]: k = "num" for text that float()     *)
(*     accepts (v is its value), k = "date" for text in DATE_FORMAT (v is  *)
(*     the instant it denotes), k = "text" for anything else.              *)
(*   - A datetime is [k |-> "dt", v |-> seconds].  self.times holds the    *)
(*     raw fields until loadFile converts them, so an element of times is  *)
(*     either a field or a datetime.                                       *)
(*   - A value handed to the canvas is a rational <<num, den>> in lowest   *)
(*     terms, because the moving average of integers is not an integer.    *)
(*   - Axis limits, the kW scaling and the error line of updateData are    *)
(*     derived from its arguments and read by no handler; lines keeps the  *)
(*     arguments of the last completed updateData.                         *)
(***************************************************************************)
EXTENDS Integers, Sequences, FiniteSets, TLC

VARIABLES
    has_data,          \* self.times/target/predict/anomalies exist (set by loadFile)
    times,             \* self.times
    target,            \* self.target
    predict,           \* self.predict
    anomalies,         \* self.anomalies
    file_edit,         \* text of self.file_edit
    start_date,        \* self.start_date (seconds)
    end_date,          \* self.end_date (seconds)
    smooth_box,        \* self.smooth_box checked
    smooth_spin,       \* self.smooth_spin value
    smooth_max,        \* self.smooth_spin maximum
    anomaly_box,       \* self.anomaly_box checked
    anomaly_spin,      \* self.anomaly_spin value
    anomaly_max,       \* self.anomaly_spin maximum
    settings_enabled,  \* self.settings_widget enabled
    options_enabled,   \* self.options_widget enabled
    color_spans,       \* self.canvas.color_spans
    lines,             \* arguments of the last completed canvas.updateData
    classified,        \* what the last showAnomalies loop decided at each bucket boundary
    reader,            \* the rows of the file the last handler opened, <<>> if it opened none
    op,                \* the handler that ran last: browseFile, updateGraph, or an edit of a control
    exc                \* the exception that ended it, "none" if it returned

vars == <<has_data, times, target, predict, anomalies, file_edit, start_date,
          end_date, smooth_box, smooth_spin, smooth_max, anomaly_box,
          anomaly_spin, anomaly_max, settings_enabled, options_enabled,
          color_spans, lines, classified, reader, op, exc>>

\* ------------------------------------------------------------------ bounds
\* Rows of a CSV file the browse dialog can return in the full application.
MaxRows == 2
\* Samples of a dataset in the anomaly-banding specification.
MaxLen == 6
\* Samples of a dataset in the range-filter specification.
MaxSamples == 3

\* timedelta(minutes=duration): seconds per minute.
SecondsPerMinute == 60

\* ------------------------------------------------------------------ helpers
Min(a, b) == IF a < b THEN a ELSE b
Max(a, b) == IF a > b THEN a ELSE b

RECURSIVE Gcd(_, _)
Gcd(a, b) == IF b = 0 THEN a ELSE Gcd(b, a % b)

\* The rational n/d (n >= 0, d > 0) in lowest terms.
Rat(n, d) == LET g == Gcd(n, d) IN <<n \div g, d \div g>>

\* A float taken from the dataset, as handed to the canvas.
AsFloat(v) == Rat(v, 1)

\* Python's seq[lo:hi] for 0 <= lo, on a 1-based sequence: elements lo+1 .. min(hi, len).
Slice(seq, lo, hi) == SubSeq(seq, lo + 1, Min(hi, Len(seq)))

\* Python's list.index(x): the first 0-based position of x (x occurs in seq).
Index(seq, x) == (CHOOSE i \in 1..Len(seq) :
                     /\ seq[i] = x
                     /\ \A j \in 1..(i - 1) : seq[j] # x) - 1

\* Python's [x for x in seq if keep[x]] where keep is given by position.
RECURSIVE Filter(_, _)
Filter(seq, keep) ==
    IF seq = <<>> THEN <<>>
    ELSE LET rest == Filter(Tail(seq), [i \in 1..(Len(seq) - 1) |-> keep[i + 1]])
         IN IF keep[1] THEN <<Head(seq)>> \o rest ELSE rest

RECURSIVE SumSeq(_)
SumSeq(seq) == IF seq = <<>> THEN 0 ELSE Head(seq) + SumSeq(Tail(seq))

\* ------------------------------------------------------------------ CSV fields
Num(v)      == [k |-> "num",  v |-> v]
DateStr(v)  == [k |-> "date", v |-> v]
Text        == [k |-> "text", v |-> 0]
DateTime(v) == [k |-> "dt",   v |-> v]

\* float(field) succeeds
IsFloat(f) == f.k = "num"
\* dt.datetime.strptime(field, DATE_FORMAT) succeeds
IsDate(f) == f.k = "date"

\* ------------------------------------------------------------------ state record
Cur == [has_data |-> has_data, times |-> times, target |-> target,
        predict |-> predict, anomalies |-> anomalies, file_edit |-> file_edit,
        start_date |-> start_date, end_date |-> end_date,
        smooth_box |-> smooth_box, smooth_spin |-> smooth_spin,
        smooth_max |-> smooth_max, anomaly_box |-> anomaly_box,
        anomaly_spin |-> anomaly_spin, anomaly_max |-> anomaly_max,
        settings_enabled |-> settings_enabled, options_enabled |-> options_enabled,
        color_spans |-> color_spans, lines |-> lines, classified |-> classified,
        reader |-> reader, op |-> op, exc |-> exc]

\* The variables hold the state s.
Is(s) ==
    /\ has_data = s.has_data /\ times = s.times /\ target = s.target
    /\ predict = s.predict /\ anomalies = s.anomalies /\ file_edit = s.file_edit
    /\ start_date = s.start_date /\ end_date = s.end_date
    /\ smooth_box = s.smooth_box /\ smooth_spin = s.smooth_spin
    /\ smooth_max = s.smooth_max /\ anomaly_box = s.anomaly_box
    /\ anomaly_spin = s.anomaly_spin /\ anomaly_max = s.anomaly_max
    /\ settings_enabled = s.settings_enabled /\ options_enabled = s.options_enabled
    /\ color_spans = s.color_spans /\ lines = s.lines /\ classified = s.classified
    /\ reader = s.reader /\ op = s.op /\ exc = s.exc

\* The handler leaves the state s.
Becomes(s) ==
    /\ has_data' = s.has_data /\ times' = s.times /\ target' = s.target
    /\ predict' = s.predict /\ anomalies' = s.anomalies /\ file_edit' = s.file_edit
    /\ start_date' = s.start_date /\ end_date' = s.end_date
    /\ smooth_box' = s.smooth_box /\ smooth_spin' = s.smooth_spin
    /\ smooth_max' = s.smooth_max /\ anomaly_box' = s.anomaly_box
    /\ anomaly_spin' = s.anomaly_spin /\ anomaly_max' = s.anomaly_max
    /\ settings_enabled' = s.settings_enabled /\ options_enabled' = s.options_enabled
    /\ color_spans' = s.color_spans /\ lines' = s.lines /\ classified' = s.classified
    /\ reader' = s.reader /\ op' = s.op /\ exc' = s.exc

\* A handler starts: nothing raised yet.
Enter(s, name) == [s EXCEPT !.op = name, !.exc = "none", !.reader = <<>>]
Raise(s, e) == [s EXCEPT !.exc = e]
Raised(s) == s.exc # "none"

NoLines == [times |-> <<>>, target |-> <<>>, predict |-> <<>>]

\* ResultsWindow.__init__ and ResultsGraph.__init__: no dataset, both check
\* boxes clear, both spin boxes 0 (Qt's default range 0..99), the options
\* panel disabled, no span on the canvas.
Constructed ==
    [has_data |-> FALSE, times |-> <<>>, target |-> <<>>, predict |-> <<>>,
     anomalies |-> <<>>, file_edit |-> <<>>, start_date |-> 0, end_date |-> 0,
     smooth_box |-> FALSE, smooth_spin |-> 0, smooth_max |-> 99,
     anomaly_box |-> FALSE, anomaly_spin |-> 0, anomaly_max |-> 99,
     settings_enabled |-> TRUE, options_enabled |-> FALSE,
     color_spans |-> <<>>, lines |-> NoLines, classified |-> <<>>,
     reader |-> <<>>, op |-> "init", exc |-> "none"]

\* ------------------------------------------------------------------ canvas
\* ResultsGraph.clearSpans
ClearSpans(s) == [s EXCEPT !.color_spans = <<>>]

\* ResultsGraph.colorSpan: start is a datetime, duration is in minutes.
ColorSpan(s, start, duration, color) ==
    LET end  == start.v + duration * SecondsPerMinute
        span == [xmin |-> start.v, xmax |-> end, color |-> color]
    IN [s EXCEPT !.color_spans = Append(@, span)]

\* ResultsGraph.updateData: the two assertions, min() of an empty sequence,
\* then the line data is replaced.
UpdateData(s, tm, tg, pr) ==
    IF Len(tm) # Len(tg) \/ Len(tm) # Len(pr) THEN Raise(s, "AssertionError")
    ELSE IF tm = <<>> THEN Raise(s, "ValueError")
    ELSE [s EXCEPT !.lines = [times |-> tm, target |-> tg, predict |-> pr]]

\* modules.stats.moving_average: a same-length trailing average, the window
\* clamped to the length of the series; window <= 1 returns the input.
MovingAverage(series, window) ==
    IF window <= 1 THEN [i \in 1..Len(series) |-> AsFloat(series[i])]
    ELSE LET w == Min(window, Len(series))
         IN [i \in 1..Len(series) |->
                LET lo == Max(1, i - w + 1)
                IN Rat(SumSeq(SubSeq(series, lo, i)), i - lo + 1)]

\* ------------------------------------------------------------------ loadFile
\* filename[-4:]
Last4(filename) ==
    SubSeq(filename, Max(1, Len(filename) - 3), Len(filename))

\* ResultsWindow.checkFilename
CheckFilename(filename) ==
    IF filename = <<>> THEN FALSE
    ELSE IF Last4(filename) # <<".", "c", "s", "v">> THEN FALSE
    ELSE TRUE

\* One pass of the body of "for row in reader" on the lists kept in s.
ReadRow(s, row) ==
    IF Len(row) < 1 THEN Raise(s, "IndexError")
    ELSE LET s1 == [s EXCEPT !.times = Append(@, row[1])]
    IN IF Len(row) < 2 THEN Raise(s1, "IndexError")
    ELSE IF ~IsFloat(row[2]) THEN Raise(s1, "ValueError")
    ELSE LET s2 == [s1 EXCEPT !.target = Append(@, row[2].v)]
    IN IF Len(row) < 3 THEN Raise(s2, "IndexError")
    ELSE IF ~IsFloat(row[3]) THEN Raise(s2, "ValueError")
    ELSE LET s3 == [s2 EXCEPT !.predict = Append(@, row[3].v)]
    IN IF Len(row) < 4 THEN s3                     \* except IndexError: pass
    ELSE IF ~IsFloat(row[4]) THEN Raise(s3, "ValueError")
    ELSE [s3 EXCEPT !.anomalies = Append(@, row[4].v)]

\* "for row in reader": the loop stops at the first row that raises.
RECURSIVE ReadRows(_, _)
ReadRows(s, rows) ==
    IF rows = <<>> THEN s
    ELSE LET s1 == ReadRow(s, Head(rows))
         IN IF Raised(s1) THEN s1 ELSE ReadRows(s1, Tail(rows))

\* The conversion of self.times: fromtimestamp(float(t)) for every element,
\* and on a ValueError strptime(t, DATE_FORMAT) for every element.
ConvertTimes(s) ==
    IF \A i \in 1..Len(s.times) : IsFloat(s.times[i])
    THEN [s EXCEPT !.times = [i \in 1..Len(s.times) |-> DateTime(s.times[i].v)]]
    ELSE IF \A i \in 1..Len(s.times) : IsDate(s.times[i])
    THEN [s EXCEPT !.times = [i \in 1..Len(s.times) |-> DateTime(s.times[i].v)]]
    ELSE Raise(s, "ValueError")

\* QSpinBox.setRange(0, hi): the value is clamped into the range.
Clamp(v, hi) == Max(0, Min(v, hi))

\* The end of loadFile: the date selectors and the spin-box ranges.
SetSelectors(s) ==
    IF s.times = <<>> THEN Raise(s, "IndexError")
    ELSE LET n == Len(s.times)
         IN [s EXCEPT !.start_date = s.times[1].v,
                      !.end_date = s.times[n].v,
                      !.smooth_max = n - 1,
                      !.smooth_spin = Clamp(@, n - 1),
                      !.anomaly_max = n - 1,
                      !.anomaly_spin = Clamp(@, n - 1)]

\* ResultsWindow.loadFile.  fs is the file system's answer for the name in
\* file_edit: [exists, lines], lines being the rows csv.reader yields, the
\* header first.
LoadFile(s, fs) ==
    IF ~CheckFilename(s.file_edit) THEN s          \* status message only
    ELSE IF ~fs.exists THEN s                      \* status message only
    ELSE IF fs.lines = <<>> THEN Raise(s, "StopIteration")
    ELSE LET s0 == [s EXCEPT !.has_data = TRUE, !.times = <<>>, !.target = <<>>,
                             !.predict = <<>>, !.anomalies = <<>>,
                             !.reader = Tail(fs.lines)]
             s1 == ReadRows(s0, Tail(fs.lines))
         IN IF Raised(s1) THEN s1
            ELSE LET s2 == ConvertTimes(s1)
                 IN IF Raised(s2) THEN s2 ELSE SetSelectors(s2)

\* ------------------------------------------------------------------ showAnomalies
\* Classify with the thresholds taken inclusively (>= for >).
ClassifyInclusive(anomaly_count, dur) ==
    IF 3 * anomaly_count >= 2 * dur THEN "red"
    ELSE IF 3 * anomaly_count >= dur THEN "orange"
    ELSE IF anomaly_count > 0 THEN "green"
    ELSE "none"

\* The if/elif chain of showAnomalies: level1 = 0, level2 = dur / 3.0,
\* level3 = level2 * 2, compared as rationals (count > dur/3 is 3*count > dur).
Classify(anomaly_count, dur) ==
    IF 3 * anomaly_count > 2 * dur THEN "red"
    ELSE IF 3 * anomaly_count > dur THEN "orange"
    ELSE IF anomaly_count > 0 THEN "green"
    ELSE "none"

\* IsBoundary testing count instead of count+1.
IsBoundaryAtCount(count, dur) == (count % dur) = 0

\* ((count+1) % dur) == 0
IsBoundary(count, dur) == ((count + 1) % dur) = 0

\* LoopStep without "anomaly_count = 0" at the bucket boundary.
LoopStepNoReset(st, dur) ==
    LET s     == st.s
        count == st.count
        total == st.anomaly_count + s.anomalies[count + 1]
    IN IF IsBoundary(count, dur)
       THEN LET color == Classify(total, dur)
                s1 == IF color # "none" THEN ColorSpan(s, st.start, dur, color) ELSE s
                s2 == [s1 EXCEPT !.classified =
                          Append(@, [sum |-> total, color |-> color,
                                     start |-> st.start.v])]
            IN [s |-> s2, count |-> count + 1, anomaly_count |-> total,
                start |-> s.times[count + 1]]
       ELSE [s |-> s, count |-> count + 1, anomaly_count |-> total,
             start |-> st.start]

\* One pass of the body of "for i in self.anomalies".  st holds the loop's
\* locals count, anomaly_count and start, and the window state s.
LoopStep(st, dur) ==
    LET s     == st.s
        count == st.count
        total == st.anomaly_count + s.anomalies[count + 1]
    IN IF IsBoundary(count, dur)
       THEN LET color == Classify(total, dur)
                s1 == IF color # "none" THEN ColorSpan(s, st.start, dur, color) ELSE s
                s2 == [s1 EXCEPT !.classified =
                          Append(@, [sum |-> total, color |-> color,
                                     start |-> st.start.v])]
            IN [s |-> s2, count |-> count + 1, anomaly_count |-> 0,
                start |-> s.times[count + 1]]
       ELSE [s |-> s, count |-> count + 1, anomaly_count |-> total,
             start |-> st.start]

RECURSIVE Loop(_, _)
Loop(st, dur) ==
    IF st.count >= Len(st.s.anomalies) THEN st.s
    ELSE Loop(LoopStep(st, dur), dur)

\* ResultsWindow.showAnomalies
ShowAnomalies(s) ==
    LET dur == s.anomaly_spin
    IN IF dur > 0
       THEN Loop([s |-> ClearSpans(s), count |-> 0, anomaly_count |-> 0,
                  start |-> s.times[1]], dur)
       ELSE s

\* ------------------------------------------------------------------ updateGraph
\* RangeFilter with the end bound taken inclusively (i <= end_date).
RangeFilterInclusiveEnd(tm, tg, pr, start, end) ==
    LET keep     == [i \in 1..Len(tm) |-> tm[i].v >= start /\ tm[i].v <= end]
        new_time == Filter(tm, keep)
    IN IF new_time = <<>>
       THEN [new_time |-> <<>>, new_target |-> <<>>, new_predict |-> <<>>,
             exc |-> "IndexError"]
       ELSE LET index0 == Index(tm, new_time[1])
                index1 == Index(tm, new_time[Len(new_time)])
            IN [new_time    |-> new_time,
                new_target  |-> Slice(tg, index0, index1 + 1),
                new_predict |-> Slice(pr, index0, index1 + 1),
                exc         |-> "none"]

\* Lines 408-411 of updateGraph: the samples with start <= t < end, the
\* target and prediction sliced between the first positions of the first
\* and of the last selected timestamp; new_time[0] raises when none is selected.
RangeFilter(tm, tg, pr, start, end) ==
    LET keep     == [i \in 1..Len(tm) |-> tm[i].v >= start /\ tm[i].v < end]
        new_time == Filter(tm, keep)
    IN IF new_time = <<>>
       THEN [new_time |-> <<>>, new_target |-> <<>>, new_predict |-> <<>>,
             exc |-> "IndexError"]
       ELSE LET index0 == Index(tm, new_time[1])
                index1 == Index(tm, new_time[Len(new_time)])
            IN [new_time    |-> new_time,
                new_target  |-> Slice(tg, index0, index1 + 1),
                new_predict |-> Slice(pr, index0, index1 + 1),
                exc         |-> "none"]

Floats(series) == [i \in 1..Len(series) |-> AsFloat(series[i])]

\* ResultsWindow.updateGraph
UpdateGraph(s) ==
    LET s1 == [s EXCEPT !.settings_enabled = FALSE, !.classified = <<>>]
    IN IF ~s1.has_data THEN Raise(s1, "AttributeError")
       \* a str compared with a datetime
       ELSE IF \E i \in 1..Len(s1.times) : s1.times[i].k # "dt"
       THEN Raise(s1, "TypeError")
       ELSE LET f == RangeFilter(s1.times, s1.target, s1.predict,
                                 s1.start_date, s1.end_date)
                smoothing_window == s1.smooth_spin
            IN IF f.exc # "none" THEN Raise(s1, f.exc)
               ELSE LET s2 == IF smoothing_window > 0
                              THEN UpdateData(s1, f.new_time,
                                       MovingAverage(f.new_target, smoothing_window),
                                       MovingAverage(f.new_predict, smoothing_window))
                              ELSE UpdateData(s1, f.new_time, Floats(f.new_target),
                                              Floats(f.new_predict))
                    IN IF Raised(s2) THEN s2
                       ELSE LET s3 == IF s2.anomaly_box THEN ShowAnomalies(s2)
                                      ELSE ClearSpans(s2)
                            IN [s3 EXCEPT !.settings_enabled = TRUE]

\* ------------------------------------------------------------------ check boxes
\* ResultsWindow.smoothToggled, after the box took the state checked
SmoothToggled(s, checked) ==
    IF checked THEN [s EXCEPT !.smooth_box = TRUE]
    ELSE [s EXCEPT !.smooth_box = FALSE, !.smooth_spin = 0]

\* ResultsWindow.anomalyToggled, after the box took the state checked
AnomalyToggled(s, checked) ==
    IF checked THEN [s EXCEPT !.anomaly_box = TRUE]
    ELSE [s EXCEPT !.anomaly_box = FALSE, !.anomaly_spin = 0]

\* ------------------------------------------------------------------ browseFile
\* ResultsWindow.browseFile: filename is what the dialog returned, fs the file
\* system's answer for it.
BrowseFile(s, filename, fs) ==
    LET s1 == [s EXCEPT !.file_edit = filename]
    IN IF filename = <<>> THEN s1
       ELSE LET s2 == IF s1.anomaly_box THEN AnomalyToggled(s1, FALSE) ELSE s1
                s3 == IF s2.smooth_box THEN SmoothToggled(s2, FALSE) ELSE s2
                s4 == LoadFile(s3, fs)
            IN IF Raised(s4) THEN s4
               ELSE LET s5 == UpdateGraph(s4)
                    IN IF Raised(s5) THEN s5
                       ELSE [s5 EXCEPT !.options_enabled = TRUE]

\* ------------------------------------------------------------------ inputs
NoName   == <<>>
DataName == <<"d", "a", "t", "a">>
CsvName  == <<"a", ".", "c", "s", "v">>
FileNames == {NoName, DataName, CsvName}

Header == <<Text, Text, Text, Text>>
NoFile == [exists |-> FALSE, lines |-> <<>>]
FileOf(rows) == [exists |-> TRUE, lines |-> <<Header>> \o rows]
EmptyFile == [exists |-> TRUE, lines |-> <<>>]

\* The sample of row i of a generated file: one sample a minute, distinct
\* target and prediction values.
TimeAt(i)    == i * SecondsPerMinute
TargetAt(i)  == 1000 * i
PredictAt(i) == 1000 * i + 500

\* A well formed row for sample i: tf is the timestamp field, an the anomaly
\* field or nothing.
Row(i, tf, an) == <<tf, Num(TargetAt(i)), Num(PredictAt(i))>> \o an

\* The anomaly columns of the generated files, by row: every sample flagged,
\* only the last sample flagged, no anomaly column, and the column missing
\* from the last row alone.
FlagColumns(n) ==
    {[i \in 1..n |-> <<Num(1)>>],
     [i \in 1..n |-> IF i = n THEN <<Num(1)>> ELSE <<Num(0)>>],
     [i \in 1..n |-> <<>>],
     [i \in 1..n |-> IF i = n THEN <<>> ELSE <<Num(1)>>]}

\* Well formed files of n rows, timestamps all epoch or all DATE_FORMAT.
GoodRows(n) ==
    {[i \in 1..n |-> Row(i, Num(TimeAt(i)), fc[i])] : fc \in FlagColumns(n)}
    \cup {[i \in 1..n |-> Row(i, DateStr(TimeAt(i)), <<Num(1)>>)]}

\* The last row with one field malformed: a non-numeric target, prediction
\* or anomaly, an unparseable timestamp, a timestamp in the other format.
BadLastRows(n) ==
    {<<Num(TimeAt(n)), Text, Num(PredictAt(n)), Num(1)>>,
     <<Num(TimeAt(n)), Num(TargetAt(n)), Text, Num(1)>>,
     <<Num(TimeAt(n)), Num(TargetAt(n)), Num(PredictAt(n)), Text>>,
     <<Text, Num(TargetAt(n)), Num(PredictAt(n)), Num(1)>>,
     <<DateStr(TimeAt(n)), Num(TargetAt(n)), Num(PredictAt(n)), Num(1)>>}

BadRows(n) ==
    {[i \in 1..n |-> IF i = n THEN bad ELSE Row(i, Num(TimeAt(i)), <<Num(1)>>)] :
        bad \in BadLastRows(n)}

RowSeqs == {<<>>} \cup UNION {GoodRows(n) \cup BadRows(n) : n \in 1..MaxRows}

Files == {NoFile, EmptyFile} \cup {FileOf(r) : r \in RowSeqs}

\* Values the user can give the date selectors.
Dates == {TimeAt(i) : i \in 0..(MaxRows + 1)}

\* ------------------------------------------------------------------ actions
\* The controls live in settings_widget; the check boxes, the spin boxes and
\* the update button live in options_widget inside it.  A disabled widget
\* delivers no event.
BrowseClicked ==
    /\ settings_enabled
    /\ \E filename \in FileNames :
          \E fs \in (IF CheckFilename(filename) THEN Files ELSE {NoFile}) :
             Becomes(BrowseFile(Enter(Cur, "browseFile"), filename, fs))

UpdateClicked ==
    /\ settings_enabled /\ options_enabled
    /\ Becomes(UpdateGraph(Enter(Cur, "updateGraph")))

SmoothBoxClicked ==
    /\ settings_enabled /\ options_enabled
    /\ Becomes(SmoothToggled(Enter(Cur, "edit"), ~smooth_box))

AnomalyBoxClicked ==
    /\ settings_enabled /\ options_enabled
    /\ Becomes(AnomalyToggled(Enter(Cur, "edit"), ~anomaly_box))

\* The spin boxes are enabled while their check box is checked.
SmoothSpinChanged ==
    /\ settings_enabled /\ options_enabled /\ smooth_box
    /\ \E v \in 0..smooth_max :
          /\ v # smooth_spin
          /\ Becomes([Enter(Cur, "edit") EXCEPT !.smooth_spin = v])

AnomalySpinChanged ==
    /\ settings_enabled /\ options_enabled /\ anomaly_box
    /\ \E v \in 0..anomaly_max :
          /\ v # anomaly_spin
          /\ Becomes([Enter(Cur, "edit") EXCEPT !.anomaly_spin = v])

StartDateChanged(d) ==
    /\ settings_enabled
    /\ d # start_date
    /\ Becomes([Enter(Cur, "edit") EXCEPT !.start_date = d])

EndDateChanged(d) ==
    /\ settings_enabled
    /\ d # end_date
    /\ Becomes([Enter(Cur, "edit") EXCEPT !.end_date = d])

Init == Is(Constructed)

Next ==
    \/ BrowseClicked
    \/ UpdateClicked
    \/ SmoothBoxClicked
    \/ AnomalyBoxClicked
    \/ SmoothSpinChanged
    \/ AnomalySpinChanged
    \/ \E d \in Dates : StartDateChanged(d)
    \/ \E d \in Dates : EndDateChanged(d)

Spec == Init /\ [][Next]_vars

\* ------------------------------------------------------------------ anomaly banding
\* The banding specification: the application after browseFile loaded a well
\* formed file of 2..MaxLen samples, one a minute, with any 0/1 anomaly
\* column; the user then works the anomaly controls and the update button.
BandFiles ==
    UNION {{FileOf([i \in 1..n |-> Row(i, Num(TimeAt(i)), <<Num(a[i])>>)]) :
               a \in [1..n -> {0, 1}]} : n \in 2..MaxLen}

InitBand ==
    \E fs \in BandFiles : Is(BrowseFile(Enter(Constructed, "browseFile"), CsvName, fs))

NextBand ==
    \/ AnomalyBoxClicked
    \/ AnomalySpinChanged
    \/ UpdateClicked

SpecBand == InitBand /\ [][NextBand]_vars

\* ------------------------------------------------------------------ range filter
\* The range-filter specification: the application after browseFile was given
\* a file of 1..MaxSamples samples in time order (equal timestamps allowed)
\* without anomaly column; the user then works the date selectors, the
\* smoothing controls and the update button.
Minutes == 1..(MaxSamples + 1)

TimeColumns ==
    UNION {{c \in [1..n -> Minutes] : \A i \in 1..(n - 1) : c[i] <= c[i + 1]} :
              n \in 1..MaxSamples}

FilterFiles ==
    {FileOf([i \in 1..Len(c) |-> Row(i, Num(TimeAt(c[i])), <<>>)]) : c \in TimeColumns}

FilterDates == {TimeAt(i) : i \in 0..(MaxSamples + 2)}

InitFilter ==
    \E fs \in FilterFiles : Is(BrowseFile(Enter(Constructed, "browseFile"), CsvName, fs))

NextFilter ==
    \/ \E d \in FilterDates : StartDateChanged(d)
    \/ \E d \in FilterDates : EndDateChanged(d)
    \/ SmoothBoxClicked
    \/ SmoothSpinChanged
    \/ UpdateClicked

SpecFilter == InitFilter /\ [][NextFilter]_vars

\* ------------------------------------------------------------------ properties
\* The last handler ran updateGraph to its end: the update button, or a
\* browseFile that got a file name from the dialog.
Redrawn ==
    /\ exc = "none"
    /\ \/ op = "updateGraph"
       \/ op = "browseFile" /\ file_edit # NoName

\* That redraw ran the loop of showAnomalies.
Banded == Redrawn /\ anomaly_box /\ anomaly_spin > 0

\* Number of complete buckets of dur samples in the anomaly sequence.
Buckets(dur) == Len(anomalies) \div dur

\* Sum of the flags of bucket k = 1, 2, ...: samples (k-1)*dur+1 .. k*dur,
\* which are the 0-based samples (k-1)*dur .. k*dur-1.
BucketSum(k, dur) == SumSeq(SubSeq(anomalies, (k - 1) * dur + 1, k * dur))

\* The severity tier of a bucket with flag sum total (s > 2*dur/3 is 3*s > 2*dur).
Tier(total, dur) ==
    IF 3 * total > 2 * dur THEN "high"
    ELSE IF 3 * total > dur THEN "medium"
    ELSE IF total > 0 THEN "low"
    ELSE "none"

BandColor(tier) ==
    CASE tier = "high" -> "red"
      [] tier = "medium" -> "orange"
      [] tier = "low" -> "green"
      [] OTHER -> "none"

\* The colours of the bands on the canvas, in drawing order.
SpanColors == [j \in 1..Len(color_spans) |-> color_spans[j].color]

IsBand(c) == c # "none"

\* The band colours the buckets 1..b call for, in bucket order.
TierColors(dur) ==
    SelectSeq([k \in 1..Buckets(dur) |-> BandColor(Tier(BucketSum(k, dur), dur))],
              IsBand)

\* C1: with dur > 0, every complete bucket of dur consecutive samples is
\* classified from the sum s of its flags: high (red) if s > 2*dur/3, else
\* medium (orange) if s > dur/3, else low (green) if s > 0, else none (no
\* band); for the flags 0,0,1,1,1,0 and dur = 3 bucket 1 is low and bucket 2
\* is medium.
C1_Classification ==
    Banded =>
        LET dur == anomaly_spin
        IN /\ \A k \in 1..Buckets(dur) :
                /\ k <= Len(classified)
                /\ classified[k].color = BandColor(Tier(BucketSum(k, dur), dur))
           /\ SpanColors = TierColors(dur)
           /\ (anomalies = <<0, 0, 1, 1, 1, 0>> /\ dur = 3)
                 => SpanColors = <<"green", "orange">>

C1_Witness ==
    /\ Banded
    /\ anomalies = <<0, 0, 1, 1, 1, 0>>
    /\ anomaly_spin = 3
    /\ SpanColors = <<"green", "orange">>

\* C2: with dur > 0 and n flags there is exactly one classification per
\* complete bucket, n div dur in all, bucket k made of the 0-based samples
\* k*dur .. (k+1)*dur-1; one band is drawn per complete bucket whose tier is
\* not none, and the trailing n mod dur samples make no bucket and no band.
C2_OnePerBucket ==
    Banded =>
        LET dur == anomaly_spin
        IN /\ Len(classified) = Buckets(dur)
           /\ \A k \in 1..Len(classified) : classified[k].sum = BucketSum(k, dur)
           /\ Len(color_spans) =
                 Cardinality({k \in 1..Buckets(dur) : BucketSum(k, dur) > 0})

\* Five samples in buckets of two: the flagged fifth sample is in no bucket.
C2_Witness ==
    /\ Banded
    /\ Len(anomalies) = 5
    /\ anomaly_spin = 2
    /\ anomalies[5] = 1
    /\ Len(classified) = 2
    /\ Len(color_spans) = 1

\* C8: with dur > 0 and 0/1 flags, the per-bucket counts used for the
\* classification add up to the number of flags set among the first
\* (n div dur)*dur samples: each of them is counted in exactly one bucket and
\* the running count starts again from 0 at every bucket boundary.
C8_CountsAddUp ==
    (Banded /\ \A i \in 1..Len(anomalies) : anomalies[i] \in {0, 1}) =>
        LET dur     == anomaly_spin
            covered == Buckets(dur) * dur
        IN /\ SumSeq([k \in 1..Len(classified) |-> classified[k].sum])
                 = Cardinality({i \in 1..covered : anomalies[i] = 1})
           /\ \A k \in 1..Len(classified) : classified[k].sum <= dur

\* Flags set in two different buckets and in the uncovered tail.
C8_Witness ==
    /\ Banded
    /\ anomaly_spin = 2
    /\ anomalies = <<1, 1, 0, 1, 1>>
    /\ SumSeq([k \in 1..Len(classified) |-> classified[k].sum]) = 3

\* C10: the band drawn for bucket k = 0, 1, ... starts at the timestamp of the
\* first sample of the bucket, times[k*dur], and is dur minutes wide.
C10_BandStart ==
    Banded =>
        LET dur == anomaly_spin
        IN \A k \in 1..Len(classified) :
              classified[k].color # "none" =>
                 /\ classified[k].start = times[(k - 1) * dur + 1].v
                 /\ \E j \in 1..Len(color_spans) :
                       /\ color_spans[j].xmin = times[(k - 1) * dur + 1].v
                       /\ color_spans[j].xmax =
                             color_spans[j].xmin + dur * SecondsPerMinute

\* ---- range filter
StrictlyAscending(tm) ==
    /\ \A i \in 1..Len(tm) : tm[i].k = "dt"
    /\ \A i \in 1..(Len(tm) - 1) : tm[i].v < tm[i + 1].v

\* Positions of the samples with start_date <= t < end_date.
Selected == {i \in 1..Len(times) : times[i].v >= start_date /\ times[i].v < end_date}

SetMin(S) == CHOOSE x \in S : \A y \in S : x <= y
SetMax(S) == CHOOSE x \in S : \A y \in S : x >= y

\* The canvas got exactly the selected samples: contiguous, in the original
\* order, the three sequences aligned by position.
CanvasHasSelected ==
    LET lo == SetMin(Selected)
        hi == SetMax(Selected)
        m  == hi - lo + 1
    IN /\ Selected = lo..hi
       /\ lines.times   = [j \in 1..m |-> times[lo + j - 1]]
       /\ lines.target  = [j \in 1..m |-> AsFloat(target[lo + j - 1])]
       /\ lines.predict = [j \in 1..m |-> AsFloat(predict[lo + j - 1])]

\* The last handler was an updateGraph on a loaded dataset with strictly
\* ascending timestamps and a selection that matches a sample.
FilterCase ==
    /\ \/ op = "updateGraph"
       \/ op = "browseFile" /\ file_edit # NoName /\ exc = "none"
    /\ has_data
    /\ Len(times) = Len(target) /\ Len(times) = Len(predict)
    /\ StrictlyAscending(times)
    /\ Selected # {}

\* C3 as stated: for strictly ascending timestamps and a selection matching a
\* sample, updateGraph passes the canvas exactly the samples with
\* start <= t < end, contiguous, in order and aligned; with start the first
\* timestamp and end past the last one, the full sequences.
C3_CanvasGetsSelection ==
    FilterCase =>
        /\ exc = "none"
        /\ CanvasHasSelected
        /\ (start_date <= times[1].v /\ end_date > times[Len(times)].v)
              => /\ lines.times = times
                 /\ lines.target = Floats(target)
                 /\ lines.predict = Floats(predict)

\* C3 amended: the same with smoothing off (smoothing window 0).
C3_CanvasGetsSelectionUnsmoothed ==
    (FilterCase /\ smooth_spin = 0) =>
        /\ exc = "none"
        /\ CanvasHasSelected
        /\ (start_date <= times[1].v /\ end_date > times[Len(times)].v)
              => /\ lines.times = times
                 /\ lines.target = Floats(target)
                 /\ lines.predict = Floats(predict)

\* A selection strictly inside a dataset of three samples, redrawn by the
\* update button with smoothing off.
C3_Witness ==
    /\ FilterCase /\ smooth_spin = 0 /\ op = "updateGraph"
    /\ Len(times) = 3
    /\ Selected = {2}
    /\ lines.times = <<times[2]>>
    /\ lines.target = <<AsFloat(target[2])>>

\* ---- errors and redraws
\* C4: when no timestamp of the loaded dataset satisfies start <= t < end,
\* updateGraph yields empty sequences and completes the redraw without raising.
C4_EmptyRangeHandled ==
    (/\ op = "updateGraph"
     /\ has_data /\ times # <<>>
     /\ StrictlyAscending(times)
     /\ Len(times) = Len(target) /\ Len(times) = Len(predict)
     /\ Selected = {})
        => exc = "none"

\* C5: after every completed updateGraph the bands on the canvas are exactly
\* those this redraw computes from the anomaly check box and the anomaly
\* window (0 included); none from an earlier redraw is left.
C5_BandsReplaced ==
    Redrawn =>
        color_spans = IF anomaly_box
                      THEN ShowAnomalies(ClearSpans(Cur)).color_spans
                      ELSE <<>>

\* A data row with a target or prediction field that float() rejects.
HasBadNumber(rows) ==
    \E r \in 1..Len(rows) :
        \/ Len(rows[r]) >= 2 /\ ~IsFloat(rows[r][2])
        \/ Len(rows[r]) >= 3 /\ ~IsFloat(rows[r][3])

\* C6: when the CSV file has a row whose target or prediction is not numeric,
\* loadFile fails and the dataset afterwards is the one held before (or
\* none): the failed file leaves no prefix of its rows, no sequences of
\* unequal length and no unconverted timestamp strings.
C6_NoPartialData ==
    [][(op' = "browseFile" /\ HasBadNumber(reader'))
          => /\ exc' # "none"
             /\ has_data' = has_data
             /\ times' = times /\ target' = target
             /\ predict' = predict /\ anomalies' = anomalies]_vars

\* C7: after a loadFile that completes without error on a file whose rows
\* have 3 or 4 fields, times, target and predict have one length and
\* anomalies is empty or of that length.
C7_EqualLengths ==
    (/\ op = "browseFile" /\ exc = "none"
     /\ reader # <<>>
     /\ \A r \in 1..Len(reader) : Len(reader[r]) \in {3, 4})
        => /\ Len(times) = Len(target)
           /\ Len(times) = Len(predict)
           /\ Len(anomalies) \in {0, Len(times)}

\* C9: whenever browseFile or updateGraph has finished, with or without an
\* error, settings_widget is enabled again.
C9_SettingsReenabled ==
    op \in {"browseFile", "updateGraph"} => settings_enabled

\* C11: every canvas.updateData call that updateGraph makes with smoothing
\* off (window 0) satisfies len(times) == len(target) and len(times) ==
\* len(predict), for every successfully loaded dataset, samples sharing a
\* timestamp included, and every selection that matches a sample.
C11_UpdateDataAssertions ==
    (/\ op \in {"updateGraph", "browseFile"}
     /\ has_data
     /\ \A i \in 1..Len(times) : times[i].k = "dt"
     /\ Len(times) = Len(target) /\ Len(times) = Len(predict)
     /\ Selected # {}
     /\ smooth_spin = 0)
        => exc # "AssertionError"

====
